---- MODULE Spec2Model ----
(***************************************************************************)
(* Model of the ronnyx chat agent: the /chat handler (app/api/routers.py), *)
(* the process-wide session map (app/api/deps.py) and the agent graph      *)
(* agent -> tools -> agent (app/core/agent.py).                            *)
(*                                                                         *)
(* Python dicts are objects: SESSIONS holds references, get_state returns  *)
(* a reference, apply_user_message assigns into the dict it is given.  The *)
(* model keeps a heap of AgentState dicts (their "messages" value) and     *)
(* references into it, so aliasing between SESSIONS and a handler's local  *)
(* `state` is part of the state.                                           *)
(***************************************************************************)
EXTENDS Integers, Sequences, FiniteSets, TLC

\* ---- bounds ------------------------------------------------------------
\* chat requests accepted in one behaviour
MaxTurns == 2
\* executions of the tools node explored in one behaviour
MaxCycles == 2
\* tool calls the model may put in one reply
MaxRequests == 2

\* ---- inputs ------------------------------------------------------------
\* request threads of the server (sync endpoints run on a thread pool)
Workers == {"w1", "w2"}
\* ChatRequest.session_id
SessionIds == {"s1", "s2"}
\* ChatRequest.message
Texts == {"hello"}
\* tool names the model may put in a tool call
RequestNames == {"show_notion_tasks", "github_create_repo"}
\* the tool calls the model may emit: any of those names with arguments that
\* fit the tool's schema, or delete_notion_task without its required task_id
Requests ==
    {[name |-> n, args |-> "valid"] : n \in RequestNames}
        \cup {[name |-> "delete_notion_task", args |-> "invalid"]}
\* content of a final reply
Replies == {"Hi there!"}

\* tools = [show_notion_tasks, create_notion_task, update_notion_task, delete_notion_task]
tools == {"show_notion_tasks", "create_notion_task", "update_notion_task", "delete_notion_task"}

\* results a registered tool returns: {"success": True, ...} or {"success": False, ...}
ToolResults == {"success_true", "success_false"}

\* the fixed system prompt (app/core/prompts.py)
ASSISTANT_SYSTEM_PROMPT == "You are an AI assistant that communicates in a natural, friendly, human-like tone."

NoRef == 0
NoId == <<"none", 0, 0, 0>>
NoReply == "<none>"
NoRequest == [session_id |-> "", message |-> ""]

VARIABLES
    heap,       \* AgentState dicts: heap[r] is the "messages" value of dict r
    SESSIONS,   \* session_id -> reference of the stored AgentState
    pc,         \* position of each request thread inside chat()
    req,        \* the ChatRequest a thread is serving
    state,      \* chat()'s local `state`: a reference into heap
    messages,   \* the graph's "messages" channel during invoke
    cycles,     \* tools-node executions of the running invoke
    turn,       \* number of the request a thread is serving
    turns,      \* requests accepted so far
    runs,       \* executions of the tools node so far
    reply,      \* ChatResponse.reply of the request a thread has completed
    pre,        \* history: the transcript get_state returned to the thread's request
    written,    \* history: session ids set_state has been called for
    gotten,     \* history: session ids read by get_state since their last set_state
    lastGet,    \* history: the transcript the last such get_state returned
    llm_input,  \* the message list of the thread's latest llm.invoke call
    llm_calls,  \* history: llm.invoke calls of the thread's running invoke
    ran,        \* history: ids of the tool calls whose tool function the running invoke ran
    invocation, \* a direct call of a tool function: its arguments, environment and
                \* the answers the remote services give
    outcome     \* what that call did: the result it returned or that it raised,
                \* and the HTTP requests it sent

vars == <<heap, SESSIONS, pc, req, state, messages, cycles, turn, turns, runs, reply,
          pre, written, gotten, lastGet, llm_input, llm_calls, ran, invocation, outcome>>

\* the variables of the chat handler and the agent graph
chatVars == <<heap, SESSIONS, pc, req, state, messages, cycles, turn, turns, runs, reply,
              pre, written, gotten, lastGet, llm_input, llm_calls, ran>>

\* the variables of a direct tool call
toolVars == <<invocation, outcome>>

hist == <<pre, written, gotten, lastGet>>

\* ---- messages ----------------------------------------------------------
HumanMessage(id, content) ==
    [type |-> "human", id |-> id, content |-> content, tool_calls |-> <<>>,
     tool_call_id |-> NoId, status |-> ""]

SystemMessage(content) ==
    [type |-> "system", id |-> <<"s", 0, 0, 0>>, content |-> content, tool_calls |-> <<>>,
     tool_call_id |-> NoId, status |-> ""]

AIMessage(id, content, calls) ==
    [type |-> "ai", id |-> id, content |-> content, tool_calls |-> calls,
     tool_call_id |-> NoId, status |-> ""]

ToolMessage(content, call_id, status) ==
    [type |-> "tool", id |-> <<"t", call_id[2], call_id[3], call_id[4]>>, content |-> content, tool_calls |-> <<>>,
     tool_call_id |-> call_id, status |-> status]

Last(s) == s[Len(s)]

\* a reducer that puts a node's output in front of the channel value
add_messages_newest_first(left, right) == right \o left

\* a channel without reducer: a node's output replaces the channel value
add_messages_overwrite(left, right) == right

\* langgraph's reducer of the "messages" channel: a message whose id is
\* already present replaces that entry, any other message is appended.
RECURSIVE add_messages(_, _)
add_messages(left, right) ==
    IF right = <<>> THEN left
    ELSE LET m == Head(right)
             hit == {i \in 1..Len(left) : left[i].id = m.id}
         IN  IF hit = {}
             THEN add_messages(Append(left, m), Tail(right))
             ELSE add_messages([i \in 1..Len(left) |-> IF i \in hit THEN m ELSE left[i]],
                               Tail(right))

\* ---- session store (app/api/deps.py) -----------------------------------
\* the transcript get_state(session_id) returns in the current state
get_state(session_id) ==
    IF session_id \in DOMAIN SESSIONS THEN heap[SESSIONS[session_id]] ELSE <<>>

\* a store that holds one session only: SESSIONS = {session_id: state}
set_state_single_entry(session_id, ref) ==
    [s \in {session_id} |-> ref]

\* a store that keeps the entry a session already has
set_state_keep_first(session_id, ref) ==
    [s \in DOMAIN SESSIONS \cup {session_id} |->
        IF s \in DOMAIN SESSIONS THEN SESSIONS[s] ELSE ref]

\* SESSIONS[session_id] = state
set_state(session_id, ref) ==
    [s \in DOMAIN SESSIONS \cup {session_id} |-> IF s = session_id THEN ref ELSE SESSIONS[s]]

\* an apply_user_message that starts the transcript over with the user message
apply_user_message_drops_history(h, ref, id, user_message) ==
    [h EXCEPT ![ref] = <<HumanMessage(id, user_message)>>]

\* state["messages"] = list(state["messages"]) + [HumanMessage(content=user_message)]
apply_user_message(h, ref, id, user_message) ==
    [h EXCEPT ![ref] = @ \o <<HumanMessage(id, user_message)>>]

\* ---- agent graph (app/core/agent.py) -----------------------------------
\* a router that takes the edge to the tools node whatever the last message carries
should_continue_always_continue(msgs) == "continue"

\* a router that ends the loop whatever the last message carries
should_continue_always_end(msgs) == "end"

should_continue(msgs) ==
    IF msgs = <<>> THEN "end"
    ELSE IF Last(msgs).tool_calls # <<>> THEN "continue" ELSE "end"

\* the tool calls of a model reply: n calls with fresh call ids
ToolCalls(t, c, names) ==
    [k \in 1..Len(names) |->
        [id |-> <<"c", t, c, k>>, name |-> names[k].name, args |-> names[k].args]]

\* ToolNode runs one tool call: a name outside the registry gives an error
\* message, arguments that fail the tool's schema give an error message, a
\* registered tool called with valid arguments gives its result dict as content.
RunTool(call, result) ==
    IF call.name \notin tools
    THEN ToolMessage("not_a_valid_tool", call.id, "error")
    ELSE IF call.args = "invalid"
    THEN ToolMessage("validation_error", call.id, "error")
    ELSE ToolMessage(result, call.id, "success")

\* a tools node that skips the calls it cannot run
ToolNode_skip_unrunnable(msgs, results) ==
    LET calls == Last(msgs).tool_calls
        all == [k \in 1..Len(calls) |-> RunTool(calls[k], results[k])]
    IN  SelectSeq(all, LAMBDA m : m.status # "error")

\* a tools node that answers only the first tool call of the batch
ToolNode_first_only(msgs, results) ==
    LET calls == Last(msgs).tool_calls
    IN  [k \in 1..1 |-> RunTool(calls[k], results[k])]

\* a tools node that stops dispatching at the first failed result
ToolNode_stop_on_failure(msgs, results) ==
    LET calls == Last(msgs).tool_calls
        all == [k \in 1..Len(calls) |-> RunTool(calls[k], results[k])]
        bad == {k \in 1..Len(calls) : all[k].content # "success_true"}
        stop == IF bad = {} THEN Len(calls)
                ELSE CHOOSE k \in bad : \A j \in bad : k <= j
    IN  SubSeq(all, 1, stop)

\* the call ids of the tool messages that carry a tool function's result:
\* the calls ToolNode invoked a tool for
Invoked(out) == {out[k].tool_call_id : k \in {j \in 1..Len(out) : out[j].status = "success"}}

\* ToolNode: one ToolMessage per tool call of the last AI message, in call order
ToolNode(msgs, results) ==
    LET calls == Last(msgs).tool_calls
    IN  [k \in 1..Len(calls) |-> RunTool(calls[k], results[k])]

\* ---- tool functions (app/core/agent.py, app/core/tools/github_tools.py) --
\* entries of a repository listing explored per length
MaxRepos == 3
\* max(1, min(limit, 200)) in github_list_repos
RepoLimitCap == 200

Min(a, b) == IF a <= b THEN a ELSE b
Max(a, b) == IF a >= b THEN a ELSE b

\* str.lower() on the characters used in names
LowerChar(c) ==
    IF c = "A" THEN "a" ELSE IF c = "N" THEN "n" ELSE IF c = "B" THEN "b" ELSE c

LowerStr(str) == [i \in 1..Len(str) |-> LowerChar(str[i])]

\* Python's `sub in str` on strings (sequences of characters)
Contains(sub, str) ==
    \E i \in 1..(Len(str) - Len(sub) + 1) : SubSeq(str, i, i + Len(sub) - 1) = sub

NoUser == "None"
NoAssignee == [given |-> FALSE, name |-> <<>>]

\* an HTTP request a tool sent
Request(target, cursor, assignee) ==
    [target |-> target, cursor |-> cursor, assignee |-> assignee]

Returned(success, status_code, error, sent, repos) ==
    [kind |-> "return", success |-> success, status_code |-> status_code,
     error |-> error, sent |-> sent, repos |-> repos, user |-> NoUser]

\* an exception left the tool function
Raised(sent) ==
    [kind |-> "raise", success |-> FALSE, status_code |-> 0, error |-> "exception",
     sent |-> sent, repos |-> <<>>, user |-> NoUser]

NoOutcome ==
    [kind |-> "none", success |-> FALSE, status_code |-> 0, error |-> "", sent |-> <<>>,
     repos |-> <<>>, user |-> NoUser]

\* _find_notion_user_id_by_name: the while loop over the pages of GET /v1/users.
\* cursor 0 is the first request (no start_cursor); the service answers cursor
\* c with pages[c].
RECURSIVE FindUserFrom(_, _, _, _)
FindUserFrom(name, pages, cursor, sent) ==
    LET resp == pages[IF cursor = 0 THEN 1 ELSE cursor]
        sent2 == Append(sent, Request("users", cursor, NoUser))
        hits == {i \in 1..Len(resp.users) :
                    Contains(LowerStr(name), LowerStr(resp.users[i].name))}
    IN  IF resp.kind = "network_error"
        THEN [kind |-> "raise", id |-> NoUser, sent |-> sent2]
        ELSE IF resp.status # 200
        THEN [kind |-> "return", id |-> NoUser, sent |-> sent2]
        ELSE IF resp.body = "malformed"
        THEN [kind |-> "raise", id |-> NoUser, sent |-> sent2]
        ELSE IF hits # {}
        THEN [kind |-> "return",
              id |-> resp.users[CHOOSE i \in hits : \A j \in hits : i <= j].id,
              sent |-> sent2]
        ELSE IF ~resp.has_more
        THEN [kind |-> "return", id |-> NoUser, sent |-> sent2]
        ELSE FindUserFrom(name, pages, resp.next_cursor, sent2)

\* a lookup that reads the first page of the listing only
find_notion_user_id_by_name_first_page(name, pages) ==
    LET resp == pages[1]
        sent == <<Request("users", 0, NoUser)>>
        hits == {i \in 1..Len(resp.users) :
                    Contains(LowerStr(name), LowerStr(resp.users[i].name))}
    IN  IF resp.kind = "network_error" \/ (resp.status = 200 /\ resp.body = "malformed")
        THEN [kind |-> "raise", id |-> NoUser, sent |-> sent]
        ELSE IF resp.status # 200 \/ hits = {}
        THEN [kind |-> "return", id |-> NoUser, sent |-> sent]
        ELSE [kind |-> "return",
              id |-> resp.users[CHOOSE i \in hits : \A j \in hits : i <= j].id,
              sent |-> sent]

find_notion_user_id_by_name(name, pages) == FindUserFrom(name, pages, 0, <<>>)

\* a direct call of the lookup: the id it returned (or that it raised) and
\* the page requests it sent
FindUserOutcome(inv) ==
    LET found == find_notion_user_id_by_name(inv.assignee.name, inv.pages)
    IN  [NoOutcome EXCEPT !.kind = found.kind, !.user = found.id, !.sent = found.sent]

\* the tool's own request (requests.post / requests.patch) and what follows it:
\* a status other than 200 is returned as failure, otherwise the body is
\* parsed with response.json() where the tool does so
MainRequest(inv, sent, assignee, parses) ==
    LET resp == inv.response
        sent2 == Append(sent, Request("main", 0, assignee))
    IN  IF resp.kind = "network_error" THEN Raised(sent2)
        ELSE IF resp.status # 200
        THEN Returned(FALSE, resp.status, resp.text, sent2, <<>>)
        ELSE IF parses /\ resp.body = "malformed" THEN Raised(sent2)
        ELSE Returned(TRUE, 0, "", sent2, <<>>)

show_notion_tasks(inv) ==
    IF ~inv.db \/ ~inv.token
    THEN Returned(FALSE, 0, "DATABASE_ID or NOTION_TOKEN is not set.", <<>>, <<>>)
    ELSE MainRequest(inv, <<>>, NoUser, TRUE)

create_notion_task(inv) ==
    IF ~inv.db \/ ~inv.token
    THEN Returned(FALSE, 0, "DATABASE_ID or NOTION_TOKEN is not set.", <<>>, <<>>)
    ELSE IF inv.assignee.given /\ inv.assignee.name # <<>>
    THEN LET found == find_notion_user_id_by_name(inv.assignee.name, inv.pages)
         IN  IF found.kind = "raise" THEN Raised(found.sent)
             ELSE IF found.id # NoUser
             THEN MainRequest(inv, found.sent, found.id, TRUE)
             ELSE Returned(FALSE, 0, "Could not find Notion user", found.sent, <<>>)
    ELSE MainRequest(inv, <<>>, NoUser, TRUE)

update_notion_task(inv) ==
    IF ~inv.token
    THEN Returned(FALSE, 0, "NOTION_TOKEN is not set.", <<>>, <<>>)
    ELSE IF inv.assignee.given
    THEN LET found == find_notion_user_id_by_name(inv.assignee.name, inv.pages)
         IN  IF found.kind = "raise" THEN Raised(found.sent)
             ELSE IF found.id # NoUser
             THEN MainRequest(inv, found.sent, found.id, TRUE)
             ELSE Returned(FALSE, 0, "Could not find Notion user", found.sent, <<>>)
    ELSE IF ~inv.fields
    THEN Returned(FALSE, 0, "No fields provided to update.", <<>>, <<>>)
    ELSE MainRequest(inv, <<>>, NoUser, TRUE)

delete_notion_task(inv) ==
    IF ~inv.token
    THEN Returned(FALSE, 0, "NOTION_TOKEN is not set.", <<>>, <<>>)
    ELSE MainRequest(inv, <<>>, NoUser, FALSE)

NotionTool(inv) ==
    CASE inv.tool = "show_notion_tasks" -> show_notion_tasks(inv)
      [] inv.tool = "create_notion_task" -> create_notion_task(inv)
      [] inv.tool = "update_notion_task" -> update_notion_task(inv)
      [] inv.tool = "delete_notion_task" -> delete_notion_task(inv)

\* the repositories github_list_repos does not `continue` past
Passes(visibility, r) ==
    /\ ~(visibility = "public" /\ r.private)
    /\ ~(visibility = "private" /\ ~r.private)

\* github_list_repos: the for loop over me.get_repos().  Every repository
\* that passes the filter is appended, and the loop breaks right after the
\* first append that makes len(repos) >= max(1, min(limit, 200)).
ListReposLoop(listing, visibility, limit) ==
    LET passing == SelectSeq(listing, LAMBDA r : Passes(visibility, r))
        repos == [i \in 1..Len(passing) |->
                     [full_name |-> passing[i].full_name, private |-> passing[i].private]]
        breaks == {n \in 1..Len(repos) : n >= Max(1, Min(limit, RepoLimitCap))}
    IN  IF breaks = {} THEN repos
        ELSE SubSeq(repos, 1, CHOOSE n \in breaks : \A m \in breaks : n <= m)

\* a listing loop that breaks at `limit` alone
ListRepos_uncapped(inv) ==
    LET passing == SelectSeq(inv.listing, LAMBDA r : Passes(inv.visibility, r))
        repos == [i \in 1..Len(passing) |->
                     [full_name |-> passing[i].full_name, private |-> passing[i].private]]
        breaks == {n \in 1..Len(repos) : n >= Max(1, inv.limit)}
    IN  IF breaks = {} THEN repos
        ELSE SubSeq(repos, 1, CHOOSE n \in breaks : \A m \in breaks : n <= m)

\* the body of github_list_repos' try block once _gh() and get_user() succeeded
ListRepos(inv) == ListReposLoop(inv.listing, inv.visibility, inv.limit)

\* try: g = _gh() ... return _ok(...)  except Exception as e: return _err(str(e))
github_list_repos(inv) ==
    IF ~inv.gh_token THEN Returned(FALSE, 0, "GITHUB_TOKEN is not set.", <<>>, <<>>)
    ELSE IF inv.gh_api = "exception" THEN Returned(FALSE, 0, "GithubException", <<>>, <<>>)
    ELSE Returned(TRUE, 0, "", <<>>, ListRepos(inv))

github_create_repo(inv) ==
    IF ~inv.gh_token THEN Returned(FALSE, 0, "GITHUB_TOKEN is not set.", <<>>, <<>>)
    ELSE IF inv.gh_api = "exception" THEN Returned(FALSE, 0, "GithubException", <<>>, <<>>)
    ELSE Returned(TRUE, 0, "", <<>>, <<>>)

GithubTool(inv) ==
    CASE inv.tool = "github_list_repos" -> github_list_repos(inv)
      [] inv.tool = "github_create_repo" -> github_create_repo(inv)

\* ---- inputs of direct tool calls ----------------------------------------
\* users of the Notion workspace
Ann  == [name |-> <<"A", "n", "n">>, id |-> "u1"]
Bo   == [name |-> <<"B", "o">>, id |-> "u2"]
ANNA == [name |-> <<"A", "N", "N", "A">>, id |-> "u3"]
\* a user object without a name
Bot  == [name |-> <<>>, id |-> "u4"]

UsersPage(users, has_more, next_cursor) ==
    [kind |-> "response", status |-> 200, body |-> "json", users |-> users,
     has_more |-> has_more, next_cursor |-> next_cursor]

ErrorPage(kind, status, body) ==
    [kind |-> kind, status |-> status, body |-> body, users |-> <<>>,
     has_more |-> FALSE, next_cursor |-> 0]

\* answers of GET /v1/users, page by page
PageLists ==
    {<<UsersPage(<<Bot, Ann, Bo>>, FALSE, 0)>>,
     <<UsersPage(<<Bo>>, TRUE, 2), UsersPage(<<ANNA, Ann>>, FALSE, 0)>>,
     <<UsersPage(<<Ann>>, TRUE, 2), UsersPage(<<ANNA>>, FALSE, 0)>>,
     <<UsersPage(<<Bo>>, TRUE, 2), ErrorPage("response", 500, "json")>>,
     <<UsersPage(<<Bo>>, FALSE, 0), UsersPage(<<Ann>>, FALSE, 0)>>,
     <<UsersPage(<<Bo>>, TRUE, 3), UsersPage(<<Bo, ANNA, Ann>>, FALSE, 0),
       UsersPage(<<Bot>>, TRUE, 2)>>,
     <<UsersPage(<<>>, FALSE, 0)>>,
     <<ErrorPage("response", 500, "json")>>,
     <<ErrorPage("response", 200, "malformed")>>,
     <<ErrorPage("network_error", 0, "")>>}

\* assignee_name: None, "", "an", "ANN", "z"
Assignees ==
    {NoAssignee} \cup
    {[given |-> TRUE, name |-> n] : n \in {<<>>, <<"a", "n">>, <<"A", "N", "N">>, <<"z">>}}

\* answers to the tool's own request
MainResponses ==
    {[kind |-> "response", status |-> 200, body |-> "json", text |-> "{}"],
     [kind |-> "response", status |-> 200, body |-> "malformed", text |-> "<html>"],
     [kind |-> "response", status |-> 404, body |-> "json", text |-> "not found"],
     [kind |-> "response", status |-> 500, body |-> "malformed", text |-> "<html>"],
     [kind |-> "network_error", status |-> 0, body |-> "", text |-> ""]}

\* repository listings: every listing of up to MaxRepos repositories, and
\* one of more than RepoLimitCap public repositories
Listings ==
    UNION {{[i \in 1..n |-> [full_name |-> i, private |-> f[i]]] : f \in [1..n -> BOOLEAN]}
              : n \in 0..MaxRepos}
        \cup {[i \in 1..(RepoLimitCap + 2) |-> [full_name |-> i, private |-> FALSE]]}

Limits == {-1, 0, 1, 2, 50, 200, 201}

NoInvocation ==
    [tool |-> "none", token |-> FALSE, db |-> FALSE, assignee |-> NoAssignee,
     fields |-> FALSE, pages |-> <<>>,
     response |-> [kind |-> "network_error", status |-> 0, body |-> "", text |-> ""],
     gh_token |-> FALSE, gh_api |-> "ok", listing |-> <<>>, visibility |-> "all",
     limit |-> 50]

NotionInvocations ==
    {[NoInvocation EXCEPT !.tool = t, !.token = tok, !.db = db, !.assignee = a,
                          !.fields = f, !.pages = p, !.response = r] :
        t \in tools, tok \in BOOLEAN, db \in BOOLEAN, a \in Assignees, f \in BOOLEAN,
        p \in PageLists, r \in MainResponses}

GithubInvocations ==
    {[NoInvocation EXCEPT !.tool = "github_list_repos", !.gh_token = tok, !.gh_api = api,
                          !.listing = l, !.visibility = v, !.limit = n] :
        tok \in BOOLEAN, api \in {"ok", "exception"}, l \in Listings,
        v \in {"all", "public", "private"}, n \in Limits}
    \cup
    {[NoInvocation EXCEPT !.tool = "github_create_repo", !.gh_token = tok, !.gh_api = api] :
        tok \in BOOLEAN, api \in {"ok", "exception"}}

\* calls of the lookup helper with a token: a name and the pages of the listing
LookupInvocations ==
    {[NoInvocation EXCEPT !.tool = "find_notion_user_id_by_name", !.token = TRUE,
                          !.assignee = a, !.pages = p] :
        a \in Assignees \ {NoAssignee}, p \in PageLists}

\* _find_notion_user_id_by_name is called
CallFindUser ==
    /\ invocation.tool = "find_notion_user_id_by_name"
    /\ outcome.kind = "none"
    /\ outcome' = FindUserOutcome(invocation)
    /\ UNCHANGED <<invocation, chatVars>>

\* a Notion tool function is called
CallNotionTool ==
    /\ invocation.tool \in tools
    /\ outcome.kind = "none"
    /\ outcome' = NotionTool(invocation)
    /\ UNCHANGED <<invocation, chatVars>>

\* a GitHub tool function is called
CallGithubTool ==
    /\ invocation.tool \in {"github_list_repos", "github_create_repo"}
    /\ outcome.kind = "none"
    /\ outcome' = GithubTool(invocation)
    /\ UNCHANGED <<invocation, chatVars>>

\* ---- chat() step by step -----------------------------------------------
\* a get_state that stores the default it returns (SESSIONS.setdefault)
GetState_setdefault(w, s, text) ==
    /\ pc[w] = "idle"
    /\ turns < MaxTurns
    /\ turns' = turns + 1
    /\ turn' = [turn EXCEPT ![w] = turns + 1]
    /\ req' = [req EXCEPT ![w] = [session_id |-> s, message |-> text]]
    /\ IF s \in DOMAIN SESSIONS
       THEN /\ state' = [state EXCEPT ![w] = SESSIONS[s]]
            /\ heap' = heap
            /\ SESSIONS' = SESSIONS
       ELSE /\ heap' = Append(heap, <<>>)
            /\ state' = [state EXCEPT ![w] = Len(heap) + 1]
            /\ SESSIONS' = set_state(s, Len(heap) + 1)
    /\ pc' = [pc EXCEPT ![w] = "got"]
    /\ pre' = [pre EXCEPT ![w] = get_state(s)]
    /\ gotten' = gotten \cup {s}
    /\ lastGet' = [lastGet EXCEPT ![s] = get_state(s)]
    /\ UNCHANGED <<messages, cycles, runs, reply, written, llm_input, llm_calls, ran>>

\* state: AgentState = get_state(req.session_id)
GetState(w, s, text) ==
    /\ pc[w] = "idle"
    /\ turns < MaxTurns
    /\ turns' = turns + 1
    /\ turn' = [turn EXCEPT ![w] = turns + 1]
    /\ req' = [req EXCEPT ![w] = [session_id |-> s, message |-> text]]
    /\ IF s \in DOMAIN SESSIONS
       THEN /\ state' = [state EXCEPT ![w] = SESSIONS[s]]
            /\ heap' = heap
       ELSE /\ heap' = Append(heap, <<>>)
            /\ state' = [state EXCEPT ![w] = Len(heap) + 1]
    /\ pc' = [pc EXCEPT ![w] = "got"]
    /\ pre' = [pre EXCEPT ![w] = get_state(s)]
    /\ gotten' = gotten \cup {s}
    /\ lastGet' = [lastGet EXCEPT ![s] = get_state(s)]
    /\ UNCHANGED <<SESSIONS, messages, cycles, runs, reply, written, llm_input, llm_calls, ran>>

\* state = apply_user_message(state, req.message): the assignment into the
\* dict `state` refers to, taken as one step
ApplyUserMessage(w) ==
    /\ pc[w] = "got"
    /\ heap' = apply_user_message(heap, state[w], <<"h", turn[w], 0, 0>>, req[w].message)
    /\ pc' = [pc EXCEPT ![w] = "applied"]
    /\ UNCHANGED <<SESSIONS, req, state, messages, cycles, turn, turns, runs, reply, hist, llm_input, llm_calls, ran>>

\* graph_app.invoke(state): the input is written to the channel, entry point "agent"
Invoke(w) ==
    /\ pc[w] = "applied"
    /\ messages' = [messages EXCEPT ![w] = add_messages(<<>>, heap[state[w]])]
    /\ cycles' = [cycles EXCEPT ![w] = 0]
    /\ pc' = [pc EXCEPT ![w] = "agent"]
    /\ UNCHANGED <<heap, SESSIONS, req, state, turn, turns, runs, reply, hist, llm_input, llm_calls, ran>>

\* a call_llm that also returns the system message as a state update
call_llm_stores_system(msgs, response) ==
    [input |-> <<SystemMessage(ASSISTANT_SYSTEM_PROMPT)>> \o msgs,
     update |-> <<SystemMessage(ASSISTANT_SYSTEM_PROMPT), response>>]

\* call_llm: response = llm.invoke([system_message] + list(state["messages"]));
\* return {"messages": [response]}
call_llm(msgs, response) ==
    [input |-> <<SystemMessage(ASSISTANT_SYSTEM_PROMPT)>> \o msgs,
     update |-> <<response>>]

\* node "agent": call_llm, then the conditional edge should_continue
CallLlm(w, names, content) ==
    /\ pc[w] = "agent"
    /\ names # <<>> => runs < MaxCycles
    /\ LET response == AIMessage(<<"a", turn[w], cycles[w], 0>>,
                                 IF names = <<>> THEN content ELSE "",
                                 ToolCalls(turn[w], cycles[w], names))
           call == call_llm(messages[w], response)
           out == add_messages(messages[w], call.update)
       IN  /\ llm_input' = [llm_input EXCEPT ![w] = call.input]
           /\ llm_calls' = [llm_calls EXCEPT ![w] = @ + 1]
           /\ messages' = [messages EXCEPT ![w] = out]
           /\ pc' = [pc EXCEPT ![w] = IF should_continue(out) = "continue"
                                      THEN "tools" ELSE "end"]
    /\ UNCHANGED <<heap, SESSIONS, req, state, cycles, turn, turns, runs, reply, hist, ran>>

\* llm.invoke raises: nothing in call_llm, the graph or chat() catches it
LlmRaises(w) ==
    /\ pc[w] = "agent"
    /\ pc' = [pc EXCEPT ![w] = "failed"]
    /\ llm_calls' = [llm_calls EXCEPT ![w] = @ + 1]
    /\ UNCHANGED <<heap, SESSIONS, req, state, messages, cycles, turn, turns, runs, reply, hist, llm_input, ran>>

\* node "tools": ToolNode, then the edge tools -> agent (build_graph puts no
\* cap on how often the cycle is taken; MaxCycles only bounds the exploration)
Tools(w, results) ==
    /\ pc[w] = "tools"
    /\ messages' = [messages EXCEPT ![w] = add_messages(@, ToolNode(@, results))]
    /\ ran' = [ran EXCEPT ![w] = @ \cup Invoked(ToolNode(messages[w], results))]
    /\ cycles' = [cycles EXCEPT ![w] = @ + 1]
    /\ runs' = runs + 1
    /\ pc' = [pc EXCEPT ![w] = "agent"]
    /\ UNCHANGED <<heap, SESSIONS, req, state, turn, turns, reply, hist, llm_input, llm_calls>>

\* a handler that replies with the content of the transcript's first message
SetState_replies_first(w) ==
    /\ pc[w] = "end"
    /\ heap' = Append(heap, messages[w])
    /\ SESSIONS' = set_state(req[w].session_id, Len(heap) + 1)
    /\ reply' = [reply EXCEPT ![w] = Head(messages[w]).content]
    /\ pc' = [pc EXCEPT ![w] = "done"]
    /\ written' = written \cup {req[w].session_id}
    /\ gotten' = gotten \ {req[w].session_id}
    /\ UNCHANGED <<req, state, messages, cycles, turn, turns, runs, pre, lastGet, llm_input, llm_calls, ran>>

\* a handler that writes back its input `state` instead of new_state
SetState_stores_input(w) ==
    /\ pc[w] = "end"
    /\ heap' = Append(heap, messages[w])
    /\ SESSIONS' = set_state(req[w].session_id, state[w])
    /\ reply' = [reply EXCEPT ![w] = Last(messages[w]).content]
    /\ pc' = [pc EXCEPT ![w] = "done"]
    /\ written' = written \cup {req[w].session_id}
    /\ gotten' = gotten \ {req[w].session_id}
    /\ UNCHANGED <<req, state, messages, cycles, turn, turns, runs, pre, lastGet, llm_input, llm_calls, ran>>

\* new_state = graph_app.invoke(...) returns; set_state(req.session_id, new_state);
\* reply = new_state["messages"][-1].content
SetState(w) ==
    /\ pc[w] = "end"
    /\ heap' = Append(heap, messages[w])
    /\ SESSIONS' = set_state(req[w].session_id, Len(heap) + 1)
    /\ reply' = [reply EXCEPT ![w] = Last(messages[w]).content]
    /\ pc' = [pc EXCEPT ![w] = "done"]
    /\ written' = written \cup {req[w].session_id}
    /\ gotten' = gotten \ {req[w].session_id}
    /\ UNCHANGED <<req, state, messages, cycles, turn, turns, runs, pre, lastGet, llm_input, llm_calls, ran>>

\* the handler returns (ChatResponse) or the exception leaves it; the thread is free again
Return(w) ==
    /\ pc[w] \in {"done", "failed"}
    /\ pc' = [pc EXCEPT ![w] = "idle"]
    /\ state' = [state EXCEPT ![w] = NoRef]
    /\ messages' = [messages EXCEPT ![w] = <<>>]
    /\ cycles' = [cycles EXCEPT ![w] = 0]
    /\ req' = [req EXCEPT ![w] = NoRequest]
    /\ turn' = [turn EXCEPT ![w] = 0]
    /\ reply' = [reply EXCEPT ![w] = NoReply]
    /\ pre' = [pre EXCEPT ![w] = <<>>]
    /\ llm_input' = [llm_input EXCEPT ![w] = <<>>]
    /\ llm_calls' = [llm_calls EXCEPT ![w] = 0]
    /\ ran' = [ran EXCEPT ![w] = {}]
    /\ UNCHANGED <<heap, SESSIONS, turns, runs, written, gotten, lastGet>>

NameSeqs == UNION {[1..n -> Requests] : n \in 0..MaxRequests}
ResultSeqs(n) == [1..n -> ToolResults]

InitChat ==
    /\ heap = <<>>
    /\ SESSIONS = <<>>
    /\ pc = [w \in Workers |-> "idle"]
    /\ req = [w \in Workers |-> NoRequest]
    /\ state = [w \in Workers |-> NoRef]
    /\ messages = [w \in Workers |-> <<>>]
    /\ cycles = [w \in Workers |-> 0]
    /\ turn = [w \in Workers |-> 0]
    /\ turns = 0
    /\ runs = 0
    /\ reply = [w \in Workers |-> NoReply]
    /\ pre = [w \in Workers |-> <<>>]
    /\ written = {}
    /\ gotten = {}
    /\ lastGet = [s \in SessionIds |-> <<>>]
    /\ llm_input = [w \in Workers |-> <<>>]
    /\ llm_calls = [w \in Workers |-> 0]
    /\ ran = [w \in Workers |-> {}]

Init ==
    /\ InitChat
    /\ invocation = NoInvocation
    /\ outcome = NoOutcome

\* Requests served one after another (the synchronous, one-turn-at-a-time
\* scheduling): a thread takes a request only when no other thread is inside chat().
Serial(w) == \A v \in Workers \ {w} : pc[v] = "idle"

Next ==
    \E w \in Workers :
        /\ Serial(w)
        /\ \/ \E s \in SessionIds, text \in Texts : GetState(w, s, text)
           \/ ApplyUserMessage(w)
           \/ Invoke(w)
           \/ \E names \in NameSeqs, content \in Replies : CallLlm(w, names, content)
           \/ LlmRaises(w)
           \/ /\ pc[w] = "tools"
              /\ \E results \in ResultSeqs(Len(Last(messages[w]).tool_calls)) : Tools(w, results)
           \/ SetState(w)
           \/ Return(w)
        /\ UNCHANGED toolVars

Spec == Init /\ [][Next]_vars

\* Requests overlapping on the server's thread pool: the steps of chat() of
\* different threads interleave freely.  The model's replies are drawn from
\* a smaller set here (no call, one call of a registered tool, or a batch of two).
OverlapNameSeqs ==
    {<<>>,
     <<[name |-> "show_notion_tasks", args |-> "valid"]>>,
     <<[name |-> "show_notion_tasks", args |-> "valid"],
       [name |-> "github_create_repo", args |-> "valid"]>>}

NextOverlap ==
    \E w \in Workers :
        \/ \E s \in SessionIds, text \in Texts : GetState(w, s, text)
        \/ ApplyUserMessage(w)
        \/ Invoke(w)
        \/ \E names \in OverlapNameSeqs, content \in Replies : CallLlm(w, names, content)
        \/ LlmRaises(w)
        \/ /\ pc[w] = "tools"
           /\ \E results \in ResultSeqs(Len(Last(messages[w]).tool_calls)) : Tools(w, results)
        \/ SetState(w)
        \/ Return(w)
    /\ UNCHANGED toolVars

SpecOverlap == Init /\ [][NextOverlap]_vars

\* Direct calls of the tool functions, one per behaviour, with the arguments,
\* the environment and the remote answers drawn from the sets above.
InitTools ==
    /\ InitChat
    /\ invocation \in NotionInvocations \cup GithubInvocations \cup LookupInvocations
    /\ outcome = NoOutcome

NextTools == CallNotionTool \/ CallGithubTool \/ CallFindUser

SpecTools == InitTools /\ [][NextTools]_vars

\* ---- properties --------------------------------------------------------
\* a tool message that reports a failure: a result dict with success=false,
\* or the tools node's error message
IsFailure(m) == m.type = "tool" /\ (m.content = "success_false" \/ m.status = "error")

\* the messages a step of thread w appended to the channel
Appended(w) == SubSeq(messages'[w], Len(messages[w]) + 1, Len(messages'[w]))

\* C1: every execution of the tools node (DISPATCH_TOOLS) for an assistant
\* message with N >= 1 tool calls appends exactly N tool messages before
\* control is back at the agent node, and the tool_call_ids of those N
\* messages correspond one-to-one to the N call ids.
C1_DispatchAnswersEachRequestOnce ==
    [][\A w \in Workers :
         (pc[w] = "tools" /\ pc'[w] # "tools") =>
            LET calls == Last(messages[w]).tool_calls
                N == Len(calls)
                new == Appended(w)
            IN  /\ N >= 1
                /\ pc'[w] = "agent"
                /\ SubSeq(messages'[w], 1, Len(messages[w])) = messages[w]
                /\ Len(new) = N
                /\ \A k \in 1..Len(new) : new[k].type = "tool"
                /\ \A c \in 1..N :
                      Cardinality({k \in 1..Len(new) : new[k].tool_call_id = calls[c].id}) = 1
                /\ \A k \in 1..Len(new) :
                      Cardinality({c \in 1..N : new[k].tool_call_id = calls[c].id}) = 1]_vars

\* a batch of two requests has been answered and control is back at the agent node
C1_Witness ==
    \E w \in Workers :
        /\ pc[w] = "agent"
        /\ Len(messages[w]) >= 3
        /\ LET n == Len(messages[w])
           IN  /\ messages[w][n - 2].type = "ai"
               /\ Len(messages[w][n - 2].tool_calls) = 2
               /\ messages[w][n - 1].type = "tool"
               /\ messages[w][n].type = "tool"

\* the assistant messages the running loop of thread w has appended
LoopReplies(w) ==
    {i \in 1..Len(messages[w]) :
        messages[w][i].type = "ai" /\ messages[w][i].id[2] = turn[w]}

\* C2: while a loop runs it is at its end (DONE) exactly when the assistant
\* message it appended last has no tool calls; the model is called only
\* when the last message is not an assistant message, the tools node only
\* when it is an assistant message with tool calls; the transcript a
\* completed loop returned ends with an assistant message without tool calls.
C2_DoneIffNoToolRequests ==
    \A w \in Workers :
        /\ pc[w] \in {"agent", "tools", "end"} =>
              ( pc[w] = "end" <=>
                  /\ LoopReplies(w) # {}
                  /\ Last(messages[w]).type = "ai"
                  /\ Last(messages[w]).tool_calls = <<>> )
        /\ pc[w] = "agent" => Last(messages[w]).type \in {"human", "tool"}
        /\ pc[w] = "tools" =>
              Last(messages[w]).type = "ai" /\ Last(messages[w]).tool_calls # <<>>
        /\ pc[w] \in {"end", "done"} =>
              Last(messages[w]).type = "ai" /\ Last(messages[w]).tool_calls = <<>>

\* a loop reached its end after a tools cycle
C2_Witness ==
    \E w \in Workers : pc[w] = "end" /\ cycles[w] >= 1

\* C3: a failure result never aborts the turn: whenever the tools node
\* appends a failure for request k, the step also answers every later
\* request of the batch and control goes back to the agent node.
C3_FailureDoesNotAbort ==
    [][\A w \in Workers :
         (pc[w] = "tools" /\ pc'[w] # "tools") =>
            LET calls == Last(messages[w]).tool_calls
                N == Len(calls)
                new == Appended(w)
            IN  /\ pc'[w] = "agent"
                /\ \A k \in 1..Len(new) :
                      IsFailure(new[k]) =>
                         /\ new[k].tool_call_id = calls[k].id
                         /\ Len(new) = N
                         /\ \A j \in k..N : new[j].tool_call_id = calls[j].id]_vars

\* the first request of a batch failed, the second was still dispatched and
\* succeeded, and the loop is back at the agent node
C3_Witness ==
    \E w \in Workers :
        /\ pc[w] = "agent"
        /\ Len(messages[w]) >= 3
        /\ LET n == Len(messages[w])
           IN  /\ Len(messages[w][n - 2].tool_calls) = 2
               /\ messages[w][n - 1].content = "success_false"
               /\ messages[w][n].content = "success_true"

\* C4: once the model call of a turn has failed, get_state of the turn's
\* session returns the transcript that was stored before the turn began.
C4_FailedTurnPersistsNothing ==
    \A w \in Workers :
        pc[w] = "failed" => get_state(req[w].session_id) = pre[w]

\* C5: the store has no locking and the last set_state wins: whatever other
\* threads are doing on the session, a thread's set_state makes the stored
\* transcript the one its own loop returned.
C5_LastWriteWins ==
    [][\A w \in Workers :
         (pc[w] = "end" /\ pc'[w] = "done") =>
            /\ req[w].session_id \in DOMAIN SESSIONS'
            /\ heap'[SESSIONS'[req[w].session_id]] = messages[w]]_vars

\* two overlapping turns on one session have both completed and the reply
\* of one of them is missing from the stored transcript
C5_Witness ==
    \E w \in Workers, v \in Workers :
        /\ w # v
        /\ pc[w] = "done" /\ pc[v] = "done"
        /\ req[w].session_id = req[v].session_id
        /\ get_state(req[w].session_id) = messages[v]
        /\ \A i \in 1..Len(messages[v]) : messages[v][i] # Last(messages[w])

\* C6: an iteration safeguard stops the loop: the model is not called again
\* once a turn has gone through MaxCycles tools cycles.
C6_IterationSafeguard ==
    \A w \in Workers : pc[w] = "agent" => cycles[w] < MaxCycles

\* the assistant message of transcript t that asked for call id c, before position i
Requested(t, i, c) ==
    \E j \in 1..(i - 1) :
        /\ t[j].type = "ai"
        /\ \E k \in 1..Len(t[j].tool_calls) : t[j].tool_calls[k].id = c

\* tool messages of t strictly between positions j and j2
ToolsBetween(t, j, j2) == {i \in (j + 1)..(j2 - 1) : t[i].type = "tool"}

WellFormed(t) ==
    /\ \A i \in 1..Len(t) :
          t[i].type = "tool" =>
             /\ Requested(t, i, t[i].tool_call_id)
             /\ \A h \in 1..(i - 1) :
                   t[h].type = "tool" => t[h].tool_call_id # t[i].tool_call_id
    /\ \A j \in 1..Len(t), j2 \in 1..Len(t) :
          ( /\ j < j2
            /\ t[j].type = "ai"
            /\ t[j2].type = "ai"
            /\ \A m \in (j + 1)..(j2 - 1) : t[m].type # "ai" ) =>
             Cardinality(ToolsBetween(t, j, j2)) = Len(t[j].tool_calls)

\* C7: in every transcript the program holds (the channel of a running loop,
\* every AgentState dict, stored or not), each tool message answers a tool
\* call of an earlier assistant message that no earlier tool message
\* answered, and an assistant message with N tool calls is followed by
\* exactly N tool messages before the next assistant message.
C7_TranscriptsWellFormed ==
    /\ \A w \in Workers : WellFormed(messages[w])
    /\ \A r \in 1..Len(heap) : WellFormed(heap[r])

\* a stored transcript spans two turns and holds an answered batch of two requests
C7_Witness ==
    \E s \in DOMAIN SESSIONS :
        LET t == get_state(s)
        IN  /\ Cardinality({i \in 1..Len(t) : t[i].type = "human"}) >= 2
            /\ \E j \in 1..Len(t) :
                  /\ Len(t[j].tool_calls) = 2
                  /\ j + 3 <= Len(t)
                  /\ t[j + 1].type = "tool"
                  /\ t[j + 2].type = "tool"
                  /\ t[j + 3].type = "ai"

\* C8: after apply_user_message and before any set_state, get_state of the
\* request's session still returns the transcript without the new user message.
C8_ApplyPersistsNothing ==
    \A w \in Workers :
        pc[w] = "applied" => get_state(req[w].session_id) = pre[w]

\* C9: while no set_state for a session has happened since a get_state of
\* it, get_state of that session returns the transcript that get returned.
C9_GetIdempotent ==
    \A s \in gotten : get_state(s) = lastGet[s]

\* C10: get_state of a session id that set_state was never called for
\* returns the empty transcript.
C10_UnseenSessionIsEmpty ==
    /\ \A s \in SessionIds \ written : get_state(s) = <<>>
    /\ \A w \in Workers :
          (pc[w] = "got" /\ req[w].session_id \notin written) =>
             pre[w] = <<>> /\ heap[state[w]] = <<>>

\* a second request reads an unwritten session after an earlier request
\* appended its user message to a default dict and failed
C10_Witness ==
    \E w \in Workers :
        /\ pc[w] = "got"
        /\ written = {}
        /\ turns = 2
        /\ \E r \in 1..Len(heap) : heap[r] # <<>>

\* C11: set_state replaces the stored transcript unconditionally: right
\* after a request's set_state(session_id, new_state), get_state(session_id)
\* returns new_state's transcript, whatever the session stored before.
C11_PutThenGet ==
    \A w \in Workers :
        pc[w] = "done" =>
           /\ req[w].session_id \in DOMAIN SESSIONS
           /\ get_state(req[w].session_id) = messages[w]

\* a set_state has replaced a transcript the session already stored
C11_Witness ==
    \E w \in Workers :
        /\ pc[w] = "done"
        /\ pre[w] # <<>>
        /\ get_state(req[w].session_id) # pre[w]

\* C12: every model call receives the fixed system prompt as its first
\* message followed by the transcript the loop held at the call, and no
\* transcript (channel of a loop, AgentState dict, stored or not) contains
\* a system message.
C12_SystemPromptOnlyAtCallTime ==
    /\ \A w \in Workers :
          pc[w] \in {"tools", "end", "done"} =>
             /\ Head(llm_input[w]) = SystemMessage(ASSISTANT_SYSTEM_PROMPT)
             /\ Tail(llm_input[w]) = SubSeq(messages[w], 1, Len(messages[w]) - 1)
    /\ \A w \in Workers : \A i \in 1..Len(messages[w]) : messages[w][i].type # "system"
    /\ \A r \in 1..Len(heap) : \A i \in 1..Len(heap[r]) : heap[r][i].type # "system"

\* the model has been called in the second turn of a session, after a tools cycle
C12_Witness ==
    \E w \in Workers :
        /\ pc[w] = "end"
        /\ cycles[w] >= 1
        /\ pre[w] # <<>>
        /\ Len(llm_input[w]) >= 6

\* a tool call the tools node cannot run: its name is not in the registry
\* or its arguments fail the tool's schema
Unrunnable(call) == call.name \notin tools \/ call.args = "invalid"

\* C13: a tool call that names a tool outside the registry, or whose
\* arguments fail validation, gets exactly one tool message, a failure
\* linked to the call's id; the loop goes back to the agent node and the
\* next model call receives that failure.
C13_UnrunnableCallAnsweredWithFailure ==
    [][\A w \in Workers :
         /\ (pc[w] = "tools" /\ pc'[w] # "tools") =>
               LET calls == Last(messages[w]).tool_calls
                   new == Appended(w)
               IN  /\ pc'[w] = "agent"
                   /\ \A c \in 1..Len(calls) :
                         Unrunnable(calls[c]) =>
                            LET ans == {k \in 1..Len(new) : new[k].tool_call_id = calls[c].id}
                            IN  /\ Cardinality(ans) = 1
                                /\ \A k \in ans : IsFailure(new[k])
         /\ (pc[w] = "agent" /\ pc'[w] \in {"tools", "end"}) =>
               \A i \in 1..Len(messages[w]) :
                  IsFailure(messages[w][i]) =>
                     \E j \in 1..Len(llm_input'[w]) : llm_input'[w][j] = messages[w][i]]_vars

\* the model has been called with the failures of an unknown tool and of
\* invalid arguments in front of it
C13_Witness ==
    \E w \in Workers :
        /\ pc[w] \in {"tools", "end"}
        /\ \E j \in 1..Len(llm_input[w]) : llm_input[w][j].content = "not_a_valid_tool"
        /\ \E j \in 1..Len(llm_input[w]) : llm_input[w][j].content = "validation_error"

\* C15: within one invoke of the graph the channel is append-only: every
\* step taken while a loop is at the agent or the tools node leaves the
\* channel's previous value as a prefix of the new one, and a step of the
\* loop itself that goes on (a model reply, a dispatch of tool calls) makes
\* it longer.
C15_AppendOnlyWithinLoop ==
    [][\A w \in Workers :
         pc[w] \in {"agent", "tools"} =>
            /\ Len(messages'[w]) >= Len(messages[w])
            /\ SubSeq(messages'[w], 1, Len(messages[w])) = messages[w]
            /\ (pc'[w] \in {"agent", "tools", "end"} /\ pc'[w] # pc[w]) =>
                  Len(messages'[w]) > Len(messages[w])]_vars

\* a loop on a session that already stored a transcript has appended a model
\* reply, a batch of tool messages and a second model reply asking for tools
C15_Witness ==
    \E w \in Workers :
        /\ pc[w] = "tools"
        /\ cycles[w] = 1
        /\ pre[w] # <<>>
        /\ Len(messages[w]) >= Len(pre[w]) + 4

\* what a turn added to transcript t, p being the transcript before the turn
Extension(t, p) == SubSeq(t, Len(p) + 1, Len(t))

\* ext is one user message with the given text, then cycles of an assistant
\* message with tool calls followed by one tool message per call, then one
\* assistant message without tool calls
TurnShape(ext, text) ==
    /\ Len(ext) >= 2
    /\ ext[1].type = "human"
    /\ ext[1].content = text
    /\ ext[2].type = "ai"
    /\ \A i \in 2..Len(ext) :
          /\ ext[i].type \in {"ai", "tool"}
          /\ ext[i].type = "ai" =>
                LET N == Len(ext[i].tool_calls)
                IN  /\ N = 0 <=> i = Len(ext)
                    /\ N > 0 =>
                          /\ i + N + 1 <= Len(ext)
                          /\ \A k \in 1..N :
                                /\ ext[i + k].type = "tool"
                                /\ ext[i + k].tool_call_id = ext[i].tool_calls[k].id
                          /\ ext[i + N + 1].type = "ai"

\* C16: with requests served one after another, the transcript a completed
\* turn stored is the transcript the session stored before the turn followed
\* by one user message, zero or more cycles (assistant message with tool
\* calls, then its tool messages) and one final assistant message without
\* tool calls.
C16_TurnExtendsStoredTranscript ==
    \A w \in Workers :
        pc[w] = "done" =>
           LET t == get_state(req[w].session_id)
           IN  /\ Len(t) >= Len(pre[w]) + 2
               /\ SubSeq(t, 1, Len(pre[w])) = pre[w]
               /\ TurnShape(Extension(t, pre[w]), req[w].message)
               /\ Len(t) = Len(pre[w]) + 2 + cycles[w]
                              + Cardinality({i \in 1..Len(t) : t[i].type = "tool"})
                              - Cardinality({i \in 1..Len(pre[w]) : pre[w][i].type = "tool"})

\* the second turn of a session completed with one cycle of one tool call:
\* it added 4 messages (user, assistant with the call, tool result, final assistant)
C16_Witness ==
    \E w \in Workers :
        /\ pc[w] = "done"
        /\ pre[w] # <<>>
        /\ Last(pre[w]).type = "ai"
        /\ LET t == get_state(req[w].session_id)
               ext == Extension(t, pre[w])
           IN  /\ Len(ext) = 4
               /\ ext[1].type = "human"
               /\ Len(ext[2].tool_calls) = 1
               /\ ext[3].type = "tool"
               /\ ext[4].type = "ai"

\* the assistant messages with tool calls the running loop of thread w appended
ToolRequestReplies(w) ==
    {i \in LoopReplies(w) : messages[w][i].tool_calls # <<>>}

\* the first assistant message the running loop of thread w appended
FirstReply(w) ==
    messages[w][CHOOSE i \in LoopReplies(w) : \A j \in LoopReplies(w) : i <= j]

\* C17: when a loop has ended (or its model call failed) the model was
\* called once more than the loop has assistant messages with tool calls;
\* every tool call whose tool ran was asked for by an assistant message of
\* the loop; a loop whose first reply has no tool calls called the model
\* once, ran no tool, and on a session with nothing stored its transcript
\* is the user message and the assistant message.
C17_ModelCallsAndToolRuns ==
    \A w \in Workers :
        /\ pc[w] \in {"end", "done", "failed"} =>
              llm_calls[w] = 1 + Cardinality(ToolRequestReplies(w))
        /\ \A c \in ran[w] :
              \E i \in ToolRequestReplies(w) :
                 \E k \in 1..Len(messages[w][i].tool_calls) :
                    messages[w][i].tool_calls[k].id = c
        /\ (pc[w] \in {"end", "done"} /\ FirstReply(w).tool_calls = <<>>) =>
              /\ llm_calls[w] = 1
              /\ ran[w] = {}
              /\ cycles[w] = 0
              /\ pre[w] = <<>> =>
                    /\ Len(messages[w]) = 2
                    /\ messages[w][1].type = "human"
                    /\ messages[w][2].type = "ai"
                    /\ pc[w] = "done" => Len(get_state(req[w].session_id)) = 2

\* the first turn of a session completed with one model call and no tool,
\* after an earlier turn had gone through two tools cycles
C17_Witness ==
    \E w \in Workers :
        /\ pc[w] = "done"
        /\ llm_calls[w] = 1
        /\ pre[w] = <<>>
        /\ Len(messages[w]) = 2
        /\ runs = 2

\* C18: when chat() has completed a turn, the session's stored transcript is
\* the one graph_app.invoke returned and ChatResponse.reply is the content
\* of its last message, the final assistant message.
C18_StoredAndReplied ==
    \A w \in Workers :
        pc[w] = "done" =>
           LET t == get_state(req[w].session_id)
           IN  /\ t = messages[w]
               /\ reply[w] = Last(t).content
               /\ Last(t).type = "ai"
               /\ Last(t).tool_calls = <<>>
               /\ reply[w] \in Replies

\* a turn with a tools cycle has completed and returned the model's final text,
\* which is not the user's message
C18_Witness ==
    \E w \in Workers :
        /\ pc[w] = "done"
        /\ cycles[w] >= 1
        /\ reply[w] = "Hi there!"
        /\ reply[w] # req[w].message

\* C21: a chat turn touches only its own session's entry of SESSIONS: no step
\* removes an entry, and whenever the transcript stored for a session
\* changes, the step is the apply_user_message or the set_state of a request
\* for that very session; the transcripts of all other sessions stay as they are.
C21_OnlyOwnSessionChanges ==
    [][/\ \A s \in DOMAIN SESSIONS : s \in DOMAIN SESSIONS'
       /\ \A s \in DOMAIN SESSIONS :
             heap'[SESSIONS'[s]] # heap[SESSIONS[s]] =>
                \E w \in Workers :
                   /\ req[w].session_id = s
                   /\ pc[w] \in {"got", "end"}
                   /\ pc'[w] # pc[w]
       /\ \A s \in SessionIds \ DOMAIN SESSIONS :
             s \in DOMAIN SESSIONS' =>
                \E w \in Workers :
                   req[w].session_id = s /\ pc[w] = "end" /\ pc'[w] = "done"]_vars

\* a turn on s2 has completed while s1 already stored a transcript, and s1
\* still stores it
C21_Witness ==
    \E w \in Workers :
        /\ pc[w] = "done"
        /\ req[w].session_id = "s2"
        /\ DOMAIN SESSIONS = {"s1", "s2"}
        /\ Len(get_state("s1")) >= 2
        /\ get_state("s1") # get_state("s2")

\* C14: no tool function lets an exception leave it: every call of a
\* registered Notion tool or of a GitHub tool returns a result.
C14_NoToolRaises ==
    invocation.tool # "find_notion_user_id_by_name" => outcome.kind # "raise"

\* the call sent the tool's own request and got an HTTP response to it
MainAnswered ==
    /\ invocation.tool \in tools
    /\ outcome.kind # "none"
    /\ \E i \in 1..Len(outcome.sent) : outcome.sent[i].target = "main"
    /\ invocation.response.kind = "response"

\* C19: whenever a Notion tool has sent its own request, its result has
\* success=true exactly when the response status is 200; on any other
\* status the result has success=false with the response's status code and
\* text; the tool's own request is the last request it sends.
C19_SuccessIffStatus200 ==
    MainAnswered =>
       /\ outcome.kind = "return"
       /\ outcome.success <=> invocation.response.status = 200
       /\ invocation.response.status # 200 =>
             /\ outcome.status_code = invocation.response.status
             /\ outcome.error = invocation.response.text
       /\ Last(outcome.sent).target = "main"

\* the page of the listing the i-th request of the call asked for
PageOf(i) ==
    invocation.pages[IF outcome.sent[i].cursor = 0 THEN 1 ELSE outcome.sent[i].cursor]

\* the page answered with status 200 and a JSON body
Readable(pg) == pg.kind = "response" /\ pg.status = 200 /\ pg.body = "json"

\* the user's name contains the searched name, letter case ignored
Matches(u) == Contains(LowerStr(invocation.assignee.name), LowerStr(u.name))

NoMatch(pg) == \A k \in 1..Len(pg.users) : ~Matches(pg.users[k])

\* C22: the lookup asks for the first page and then follows the cursors: it
\* asks for a further page only after a page without a match that reports
\* has_more, with that page's next_cursor.  On the page it stops at, it
\* returns no id if the status is not 200 or if the page has no match (and
\* then has_more is false), and otherwise the id of the first user of the
\* page whose name contains the searched name case-insensitively.  It
\* raises only on a page request that fails or whose body is not JSON.
C22_LookupFirstMatchInCursorOrder ==
    (invocation.tool = "find_notion_user_id_by_name" /\ outcome.kind # "none") =>
       LET n == Len(outcome.sent)
       IN  /\ n >= 1
           /\ outcome.sent[1].cursor = 0
           /\ \A i \in 1..n : outcome.sent[i].target = "users"
           /\ \A i \in 1..(n - 1) :
                 /\ Readable(PageOf(i))
                 /\ NoMatch(PageOf(i))
                 /\ PageOf(i).has_more
                 /\ outcome.sent[i + 1].cursor = PageOf(i).next_cursor
           /\ LET last == PageOf(n)
              IN  /\ (last.kind = "response" /\ last.status # 200) =>
                        outcome.kind = "return" /\ outcome.user = NoUser
                  /\ (Readable(last) /\ NoMatch(last)) =>
                        /\ ~last.has_more
                        /\ outcome.kind = "return"
                        /\ outcome.user = NoUser
                  /\ (Readable(last) /\ ~NoMatch(last)) =>
                        /\ outcome.kind = "return"
                        /\ \E k \in 1..Len(last.users) :
                              /\ Matches(last.users[k])
                              /\ \A j \in 1..(k - 1) : ~Matches(last.users[j])
                              /\ outcome.user = last.users[k].id
                  /\ outcome.kind = "raise" =>
                        \/ last.kind = "network_error"
                        \/ last.status = 200 /\ last.body = "malformed"

\* the lookup followed the cursors to a third request and returned the id of
\* "ANNA", the first match of that page, for the name "an"
C22_Witness ==
    /\ invocation.tool = "find_notion_user_id_by_name"
    /\ outcome.kind = "return"
    /\ Len(outcome.sent) = 3
    /\ outcome.sent[2].cursor = 3
    /\ outcome.sent[3].cursor = 2
    /\ invocation.assignee.name = <<"a", "n">>
    /\ outcome.user = "u3"

\* the positions in the call's requests of those sent to the given target
SentTo(target) == {i \in 1..Len(outcome.sent) : outcome.sent[i].target = target}

\* C23: create_notion_task called with an assignee name (database id and
\* token set) resolves the user first: when the lookup yields no id, because
\* no user matches or because the listing fails, the call returns
\* success=false and sends no page-creation request; a page-creation request
\* is sent only after a lookup that returned an id, after all its page
\* requests, and carries that id as assignee.
C23_CreateResolvesAssigneeFirst ==
    ( /\ invocation.tool = "create_notion_task"
      /\ outcome.kind # "none"
      /\ invocation.token
      /\ invocation.db
      /\ invocation.assignee.given
      /\ invocation.assignee.name # <<>> ) =>
       LET found == find_notion_user_id_by_name(invocation.assignee.name, invocation.pages)
       IN  /\ found.id = NoUser =>
                 /\ outcome.kind = "return"
                 /\ ~outcome.success
                 /\ SentTo("main") = {}
           /\ SentTo("main") # {} =>
                 /\ found.kind = "return"
                 /\ found.id # NoUser
                 /\ SentTo("users") # {}
                 /\ SentTo("main") = {Len(outcome.sent)}
                 /\ SubSeq(outcome.sent, 1, Len(outcome.sent) - 1) = found.sent
                 /\ Last(outcome.sent).assignee = found.id

\* the visibility filter: all keeps every repository, public the
\* non-private ones, private the private ones
Visible(visibility, r) ==
    \/ visibility = "all"
    \/ visibility = "public" /\ ~r.private
    \/ visibility = "private" /\ r.private

\* the position in the listing of the j-th repository that passes the filter
NthVisible(listing, visibility, j) ==
    CHOOSE p \in 1..Len(listing) :
        /\ Visible(visibility, listing[p])
        /\ Cardinality({i \in 1..p : Visible(visibility, listing[i])}) = j

\* C20: with a token and a working API, github_list_repos returns success
\* with the first k repositories that pass the visibility filter, in listing
\* order, k being the smaller of their number and max(1, min(limit, 200)).
C20_ListReposFirstK ==
    ( /\ invocation.tool = "github_list_repos"
      /\ outcome.kind # "none"
      /\ invocation.gh_token
      /\ invocation.gh_api = "ok" ) =>
       LET listing == invocation.listing
           v == invocation.visibility
           count == Cardinality({i \in 1..Len(listing) : Visible(v, listing[i])})
           k == Min(count, Max(1, Min(invocation.limit, 200)))
       IN  /\ outcome.kind = "return"
           /\ outcome.success
           /\ Len(outcome.repos) = k
           /\ \A j \in 1..k :
                 LET r == listing[NthVisible(listing, v, j)]
                 IN  /\ outcome.repos[j].full_name = r.full_name
                     /\ outcome.repos[j].private = r.private

\* a limit above 200 on a listing of more than 200 repositories returned 200 of them
C20_Witness ==
    /\ invocation.tool = "github_list_repos"
    /\ outcome.kind = "return"
    /\ invocation.limit > 200
    /\ Len(invocation.listing) > 200
    /\ Len(outcome.repos) = 200
====
